---- MODULE Spec2Model ----
(***************************************************************************)
(* Model of binary_mask.py: process_image (one image -> mask file + count) *)
(* and process_images_in_parallel (thread pool, as_completed, total).      *)
(* Strings are sequences of one-character strings, so that the two         *)
(* split() calls and os.path.join act on characters as the code does.      *)
(* The file system is the POSIX one: "/" separates directories and a file  *)
(* can only be created in a directory that exists.                         *)
(***************************************************************************)
EXTENDS Integers, Sequences, FiniteSets, TLC

\* ---------------------------------------------------------------- bounds
MaxImages == 2      \* longest image_paths list of a batch
MaxCells == 4       \* most pixels (height x width) of an image of SpecMask

\* ------------------------------------------------------ program constants
Threshold == 200
On == 255

\* Python's None for mask_filename; `if mask_filename:` is false for it.
None == << >>

\* cv2.imread's None.
NoImage == [h |-> 0, w |-> 0, px |-> << >>]

\* ------------------------------------------------------------ pixel grids
Pos(h, w) == (0 .. h - 1) \X (0 .. w - 1)

\* The test of line 55 on one pixel (a triple of channel values).
AllAboveAtLeast(p) == p[1] >= Threshold /\ p[2] >= Threshold /\ p[3] >= Threshold

AllAbove(p) == p[1] > Threshold /\ p[2] > Threshold /\ p[3] > Threshold

\* Lines 52-56: the loop over i, j in row-major order, k = i * w + j, on the
\* mask of zeros of line 49.
RECURSIVE MaskLoop(_, _, _)
MaskLoop(image, m, k) ==
    IF k >= image.h * image.w THEN m
    ELSE LET i == k \div image.w
             j == k % image.w
         IN  MaskLoop(image,
                      IF AllAbove(image.px[<<i, j>>])
                      THEN [m EXCEPT ![<<i, j>>] = On]
                      ELSE m,
                      k + 1)

\* Lines 49-56: np.zeros(image.shape[:2]) and the loop.
MaskOf(image) ==
    [h |-> image.h, w |-> image.w,
     px |-> MaskLoop(image, [p \in Pos(image.h, image.w) |-> 0], 0)]

RECURSIVE SumOver(_, _)
SumOver(f, S) ==
    IF S = {} THEN 0
    ELSE LET p == CHOOSE q \in S : TRUE IN f[p] + SumOver(f, S \ {p})

\* np.sum(mask) : the sum of the mask's values.
SumOfValues(mask) == SumOver(mask.px, DOMAIN mask.px)

\* Line 69: np.sum(mask == 255).
CountOn(mask) == SumOver([p \in DOMAIN mask.px |-> IF mask.px[p] = On THEN 1 ELSE 0],
                         DOMAIN mask.px)

\* ---------------------------------------------------------------- strings
\* s.split(c)[-1]: what follows the last c, the whole of s without any c.
AfterLast(s, c) ==
    LET I == {i \in 1 .. Len(s) : s[i] = c}
    IN  IF I = {} THEN s
        ELSE SubSeq(s, (CHOOSE i \in I : \A j \in I : j <= i) + 1, Len(s))

\* s.split(c)[0]: what precedes the first c, the whole of s without any c.
BeforeFirst(s, c) ==
    LET I == {i \in 1 .. Len(s) : s[i] = c}
    IN  IF I = {} THEN s
        ELSE SubSeq(s, 1, (CHOOSE i \in I : \A j \in I : i <= j) - 1)

\* What precedes the last c, the empty string without any c.
BeforeLast(s, c) ==
    LET I == {i \in 1 .. Len(s) : s[i] = c}
    IN  IF I = {} THEN << >>
        ELSE SubSeq(s, 1, (CHOOSE i \in I : \A j \in I : j <= i) - 1)

MaskSuffix == <<"_", "m", "a", "s", "k", ".", "p", "n", "g">>

\* os.path.join(a, b) of posixpath.
PathJoin(a, b) ==
    IF Len(b) > 0 /\ b[1] = "/" THEN b
    ELSE IF a = << >> \/ a[Len(a)] = "/" THEN a \o b
    ELSE a \o <<"/">> \o b

\* Line 63.
MaskFilename(output_dir, image_path) ==
    PathJoin(output_dir, BeforeFirst(AfterLast(image_path, "\\"), ".") \o MaskSuffix)

\* The directory a file name lies in ("" is the working directory).
ParentDir(name) == BeforeLast(name, "/")

\* ----------------------------------------------------------------- inputs
output_dir == <<"o", "u", "t">>

P_a_jpg == <<"a", ".", "j", "p", "g">>
P_a_png == <<"a", ".", "p", "n", "g">>
P_ab_jpg == <<"a", ".", "b", ".", "j", "p", "g">>
P_d_c_jpg == <<"d", "/", "c", ".", "j", "p", "g">>
P_x_jpg == <<"x", ".", "j", "p", "g">>

SamplePaths == {P_a_jpg, P_a_png, P_ab_jpg, P_d_c_jpg, P_x_jpg}

\* The sample paths whose calls differ in their steps: two readable images
\* and a file that is no image.
FairPaths == {P_a_jpg, P_a_png, P_x_jpg}

White == <<255, 255, 255>>
Edge == <<255, 255, 200>>
Above == <<201, 201, 201>>
Black == <<0, 0, 0>>

Grid(h, w, cells) == [h |-> h, w |-> w, px |-> [p \in Pos(h, w) |-> cells[p[1] * w + p[2] + 1]]]

\* What cv2.imread returns for each sample path: x.jpg is not an image.
SampleDisk(path) ==
    CASE path = P_a_jpg -> Grid(1, 2, <<White, Edge>>)
      [] path = P_a_png -> Grid(1, 1, <<White>>)
      [] path = P_ab_jpg -> Grid(2, 1, <<Above, Black>>)
      [] path = P_d_c_jpg -> Grid(2, 2, <<White, Above, Edge, White>>)
      [] OTHER -> NoImage

SamplePixels ==
    {White, Edge, <<200, 255, 255>>, <<255, 200, 255>>, Above, Black, <<200, 200, 200>>}

Shapes == {s \in (1 .. MaxCells) \X (1 .. MaxCells) : s[1] * s[2] <= MaxCells}

\* Every image of at most MaxCells sample pixels.
AllImages ==
    UNION {{[h |-> s[1], w |-> s[2], px |-> f] : f \in [Pos(s[1], s[2]) -> SamplePixels]}
           : s \in Shapes}

\* The lists of distinct sample paths of a given length.
PathLists(S, n) == {s \in [1 .. n -> S] : \A i, j \in 1 .. n : i # j => s[i] # s[j]}

\* The directories that exist beside output_dir: the working directory and d.
BaseDirs == {<< >>, <<"d">>}

\* ------------------------------------------------------------------ state
VARIABLES
    image_paths,        \* the argument of process_images_in_parallel
    disk,               \* disk[t]: what cv2.imread returns for image_paths[t]
    wErr,               \* wErr[t]: cv2.imwrite raises for call t
    dirs,               \* the directories that exist
    files,              \* files: file name -> the mask written there
    tpc,                \* tpc[t]: where call t of process_image stands
    mask,               \* mask[t]: the local variable mask of call t
    future,             \* future[t]: the outcome of call t
    failed,             \* failed[t]: the step at which call t failed
    execCount,          \* execCount[t]: how often call t was started
    cpc,                \* where process_images_in_parallel stands
    submitted,          \* the number of futures of the list of line 102
    pendingFut,         \* the futures as_completed has not yielded yet
    collectCount,       \* collectCount[t]: how often future t was yielded
    total_mask_count,   \* line 98
    after               \* after[t]: files when call t returned

vars == <<image_paths, disk, wErr, dirs, files, tpc, mask, future, failed,
          execCount, cpc, submitted, pendingFut, collectCount,
          total_mask_count, after>>

coordVars == <<cpc, submitted, pendingFut, collectCount, total_mask_count>>
inputVars == <<image_paths, disk, wErr>>

N == Len(image_paths)
Tasks == 1 .. N

NoMask == [h |-> 0, w |-> 0, px |-> << >>]
NoFuture == [state |-> "PENDING", exc |-> FALSE, count |-> 0, file |-> None]

\* `return count, file` of a call: the future holds the value.
Returned(count, file) == [state |-> "FINISHED", exc |-> FALSE, count |-> count, file |-> file]

Uncaught == [state |-> "FINISHED", exc |-> TRUE, count |-> 0, file |-> None]

\* Lines 76-78: `except Exception` logs and returns 0, None.
Except == Returned(0, None)

InitCommon ==
    /\ dirs \in {BaseDirs, BaseDirs \cup {output_dir}}
    /\ files = << >>
    /\ mask = [t \in Tasks |-> NoMask]
    /\ future = [t \in Tasks |-> NoFuture]
    /\ failed = [t \in Tasks |-> "no"]
    /\ execCount = [t \in Tasks |-> 0]
    /\ submitted = 0
    /\ pendingFut = {}
    /\ collectCount = [t \in Tasks |-> 0]
    /\ total_mask_count = 0
    /\ after = [t \in Tasks |-> << >>]

\* A batch over a list of distinct paths of S.
InitBatch(S) ==
    /\ \E n \in 0 .. MaxImages : image_paths \in PathLists(S, n)
    /\ disk = [t \in Tasks |-> SampleDisk(image_paths[t])]
    /\ wErr \in [Tasks -> BOOLEAN]
    /\ tpc = [t \in Tasks |-> "new"]
    /\ cpc = "L102"
    /\ InitCommon

Init == InitBatch(SamplePaths)

InitFair == InitBatch(FairPaths)

\* One direct call of process_image on an image of at most MaxCells pixels.
InitMask ==
    /\ image_paths = <<P_a_jpg>>
    /\ disk \in [Tasks -> AllImages]
    /\ wErr \in [Tasks -> BOOLEAN]
    /\ tpc = [t \in Tasks |-> "wait"]
    /\ cpc = "direct"
    /\ InitCommon

\* Two direct calls of process_image, one after the other, on one sample
\* path, with the file unchanged and cv2.imwrite behaving alike.
InitTwice ==
    /\ \E p \in SamplePaths : image_paths = <<p, p>>
    /\ disk = [t \in Tasks |-> SampleDisk(image_paths[t])]
    /\ \E b \in BOOLEAN : wErr = [t \in Tasks |-> b]
    /\ tpc = [t \in Tasks |-> "wait"]
    /\ cpc = "direct"
    /\ InitCommon

\* ---------------------------------------------------------- process_image
\* The caller calls process_image itself, once the call before has returned.
Call(t) ==
    /\ tpc[t] = "wait"
    /\ \A u \in 1 .. t - 1 : tpc[u] = "done"
    /\ tpc' = [tpc EXCEPT ![t] = "L42"]
    /\ execCount' = [execCount EXCEPT ![t] = @ + 1]
    /\ UNCHANGED <<inputVars, dirs, files, mask, future, failed, coordVars, after>>

Finish(t, outcome, why, newfiles) ==
    /\ future' = [future EXCEPT ![t] = outcome]
    /\ failed' = [failed EXCEPT ![t] = why]
    /\ tpc' = [tpc EXCEPT ![t] = "done"]
    /\ files' = newfiles
    /\ after' = [after EXCEPT ![t] = newfiles]

\* Lines 42-56: imread, the None test, the mask.
Imread(t) ==
    /\ tpc[t] = "L42"
    /\ IF disk[t] = NoImage
       THEN /\ Finish(t, Returned(0, None), "imread", files)
            /\ UNCHANGED mask
       ELSE /\ mask' = [mask EXCEPT ![t] = MaskOf(disk[t])]
            /\ tpc' = [tpc EXCEPT ![t] = "L59"]
            /\ UNCHANGED <<future, failed, files, after>>
    /\ UNCHANGED <<inputVars, dirs, execCount, coordVars>>

\* Line 59: the condition under which line 60 runs.
AlwaysMake(exists) == TRUE

MustMake(exists) == ~exists

\* Line 59: os.path.exists(output_dir).
Exists(t) ==
    /\ tpc[t] = "L59"
    /\ tpc' = [tpc EXCEPT ![t] = IF MustMake(output_dir \in dirs) THEN "L60" ELSE "L63"]
    /\ UNCHANGED <<inputVars, dirs, files, mask, future, failed, execCount, coordVars, after>>

\* Line 60: os.makedirs(output_dir) raises FileExistsError when the
\* directory exists by now.
MakeDirs(t) ==
    /\ tpc[t] = "L60"
    /\ IF output_dir \in dirs
       THEN /\ Finish(t, Except, "makedirs", files)
            /\ UNCHANGED dirs
       ELSE /\ dirs' = dirs \cup {output_dir}
            /\ tpc' = [tpc EXCEPT ![t] = "L63"]
            /\ UNCHANGED <<future, failed, files, after>>
    /\ UNCHANGED <<inputVars, mask, execCount, coordVars>>

\* Lines 63-74: the file name, cv2.imwrite (its return value is dropped: it
\* is False, and no file is written, when the file cannot be created), the
\* count and the return.
Imwrite(t) ==
    /\ tpc[t] = "L63"
    /\ LET mask_filename == MaskFilename(output_dir, image_paths[t])
       IN  IF wErr[t]
           THEN Finish(t, Except, "imwrite", files)
           ELSE Finish(t, Returned(CountOn(mask[t]), mask_filename), "no",
                       IF ParentDir(mask_filename) \in dirs
                       THEN (mask_filename :> mask[t]) @@ files
                       ELSE files)
    /\ UNCHANGED <<inputVars, dirs, mask, execCount, coordVars>>

\* ----------------------------------------------- process_images_in_parallel
\* Line 102: executor.submit of the next path.
Submit ==
    /\ cpc = "L102"
    /\ submitted < N
    /\ submitted' = submitted + 1
    /\ tpc' = [tpc EXCEPT ![submitted + 1] = "queued"]
    /\ UNCHANGED <<inputVars, dirs, files, mask, future, failed, execCount,
                   cpc, pendingFut, collectCount, total_mask_count, after>>

AllButLast(n) == 1 .. n - 1

\* Line 104: the futures as_completed is given.
Futures(n) == 1 .. n

\* Line 104: as_completed(futures) starts once the list is built.
AsCompleted ==
    /\ cpc = "L102"
    /\ submitted = N
    /\ cpc' = "L104"
    /\ pendingFut' = Futures(N)
    /\ UNCHANGED <<inputVars, dirs, files, tpc, mask, future, failed, execCount,
                   submitted, collectCount, total_mask_count, after>>

\* A worker thread takes the oldest queued call. The pool's default size,
\* min(32, cpu + 4), is above MaxImages: no call waits for a free thread.
Start(t) ==
    /\ tpc[t] = "queued"
    /\ \A u \in 1 .. t - 1 : tpc[u] # "queued"
    /\ tpc' = [tpc EXCEPT ![t] = "L42"]
    /\ execCount' = [execCount EXCEPT ![t] = @ + 1]
    /\ UNCHANGED <<inputVars, dirs, files, mask, future, failed, coordVars, after>>

InSubmissionOrder(t) ==
    /\ future[t].state = "FINISHED"
    /\ \A u \in 1 .. t - 1 : u \notin pendingFut

\* Line 104: as_completed yields any future that is finished.
Yields(t) == future[t].state = "FINISHED"

\* Lines 104-108: one turn of the loop; future.result() re-raises the
\* call's exception, which leaves the function.
Collect(t) ==
    /\ cpc = "L104"
    /\ t \in pendingFut
    /\ Yields(t)
    /\ pendingFut' = pendingFut \ {t}
    /\ collectCount' = [collectCount EXCEPT ![t] = @ + 1]
    /\ IF future[t].exc
       THEN /\ cpc' = "raised"
            /\ UNCHANGED total_mask_count
       ELSE /\ total_mask_count' = total_mask_count + future[t].count
            /\ UNCHANGED cpc
    /\ UNCHANGED <<inputVars, dirs, files, tpc, mask, future, failed, execCount,
                   submitted, after>>

\* Lines 109-112: the loop is over, the pool is shut down, the total returned.
Return ==
    /\ cpc = "L104"
    /\ pendingFut = {}
    /\ \A t \in Tasks : tpc[t] = "done"
    /\ cpc' = "returned"
    /\ UNCHANGED <<inputVars, dirs, files, tpc, mask, future, failed, execCount,
                   submitted, pendingFut, collectCount, total_mask_count, after>>

Next ==
    \/ Submit
    \/ AsCompleted
    \/ Return
    \/ \E t \in Tasks : Start(t)
    \/ \E t \in Tasks : Imread(t)
    \/ \E t \in Tasks : Exists(t)
    \/ \E t \in Tasks : MakeDirs(t)
    \/ \E t \in Tasks : Imwrite(t)
    \/ \E t \in Tasks : Collect(t)

Spec == Init /\ [][Next]_vars

\* The pool's threads and the caller's thread each keep running.
FairSpec == InitFair /\ [][Next]_vars /\ WF_vars(Next)

ProcessImage(t) == Call(t) \/ Imread(t) \/ Exists(t) \/ MakeDirs(t) \/ Imwrite(t)

NextCalls == \E t \in Tasks : ProcessImage(t)

SpecMask == InitMask /\ [][NextCalls]_vars

SpecTwice == InitTwice /\ [][NextCalls]_vars

\* ------------------------------------------------------------- properties
Computed(t) == tpc[t] \in {"L59", "L60", "L63", "done"}

\* The number of positions of an image where every channel is above 200.
OnPositions(image) ==
    Cardinality({p \in Pos(image.h, image.w) : \A c \in 1 .. 3 : image.px[p][c] > 200})

\* C1: once process_image has built the mask of a readable image, the mask
\* has the image's height and width, and at every position it is 255 if all
\* three channels of the image are strictly above 200 and 0 otherwise.
C1_MaskIffAllAbove ==
    \A t \in Tasks :
        Computed(t) /\ disk[t] # NoImage =>
            /\ mask[t].h = disk[t].h
            /\ mask[t].w = disk[t].w
            /\ DOMAIN mask[t].px = Pos(disk[t].h, disk[t].w)
            /\ \A p \in Pos(disk[t].h, disk[t].w) :
                   IF \A c \in 1 .. 3 : disk[t].px[p][c] > 200
                   THEN mask[t].px[p] = 255
                   ELSE mask[t].px[p] = 0

\* A two-row image with a (255, 255, 200) pixel and an all-255 pixel was masked.
C1_Witness ==
    \E t \in Tasks :
        /\ tpc[t] = "done"
        /\ disk[t].h = 2 /\ disk[t].w = 2
        /\ disk[t].px[<<0, 1>>] = <<255, 255, 200>> /\ mask[t].px[<<0, 1>>] = 0
        /\ disk[t].px[<<1, 0>>] = <<255, 255, 255>> /\ mask[t].px[<<1, 0>>] = 255

\* C2: the on_count process_image returns with a mask file name is the number
\* of positions where every channel is strictly above 200: 0 when no pixel
\* has all channels above 200, height x width when every channel is 255.
C2_OnCount ==
    \A t \in Tasks :
        tpc[t] = "done" /\ future[t].file # None =>
            /\ future[t].count = OnPositions(disk[t])
            /\ (\A p \in Pos(disk[t].h, disk[t].w) : \E c \in 1 .. 3 : disk[t].px[p][c] <= 200)
                   => future[t].count = 0
            /\ (\A p \in Pos(disk[t].h, disk[t].w) : disk[t].px[p] = <<255, 255, 255>>)
                   => future[t].count = disk[t].h * disk[t].w

\* A call returned the count 2 for an image of three pixels.
C2_Witness ==
    \E t \in Tasks :
        /\ tpc[t] = "done" /\ future[t].file # None
        /\ disk[t].h * disk[t].w = 3
        /\ future[t].count = 2

\* What process_image returns as on_count for call t run on its own.
AloneCount(t) == IF disk[t] = NoImage \/ wErr[t] THEN 0 ELSE OnPositions(disk[t])

RECURSIVE SumAlone(_)
SumAlone(n) == IF n = 0 THEN 0 ELSE AloneCount(n) + SumAlone(n - 1)

\* C3: the total process_images_in_parallel returns is the sum of the counts
\* process_image yields for each image processed alone.
C3_TotalIsSumOfAlone == cpc = "returned" => total_mask_count = SumAlone(N)

\* C4: no call fails in os.makedirs, and every call on a readable image whose
\* write does not raise ends with its count and its file name.
C4_DirectoryRaceSafe ==
    \A t \in Tasks :
        /\ failed[t] # "makedirs"
        /\ tpc[t] = "done" /\ disk[t] # NoImage /\ ~wErr[t] =>
               /\ future[t].count = OnPositions(disk[t])
               /\ future[t].file = MaskFilename(output_dir, image_paths[t])

\* C5: a call that fails (imread returns None, os.makedirs or cv2.imwrite
\* raises) ends with (0, None) and no exception in its future; a call without
\* failure keeps its own count and file name; the coordinator never raises,
\* and returns 0 when every call failed.
C5_FailuresContained ==
    /\ cpc # "raised"
    /\ \A t \in Tasks :
           future[t].state = "FINISHED" =>
               /\ ~future[t].exc
               /\ (failed[t] # "no" \/ disk[t] = NoImage \/ wErr[t])
                      => future[t].count = 0 /\ future[t].file = None
               /\ failed[t] = "no"
                      => /\ future[t].count = OnPositions(disk[t])
                         /\ future[t].file = MaskFilename(output_dir, image_paths[t])
    /\ (cpc = "returned" /\ \A t \in Tasks : failed[t] # "no") => total_mask_count = 0

\* The batch returned the count of the one call that succeeded, the other
\* having failed in os.makedirs.
C5_Witness ==
    /\ cpc = "returned"
    /\ \E t, u \in Tasks :
           /\ failed[t] = "makedirs"
           /\ failed[u] = "no" /\ future[u].count > 0
           /\ total_mask_count = future[u].count

\* The path without its directory part and without its extension.
Stem(path) ==
    LET base == AfterLast(path, "/")
        dots == {i \in 2 .. Len(base) : base[i] = "."}
    IN  IF dots = {} THEN base
        ELSE SubSeq(base, 1, (CHOOSE i \in dots : \A j \in dots : j <= i) - 1)

\* C6: after a batch, each call that returned a file name left its own mask
\* in the file <stem>_mask.png of the output directory, and no other file
\* was written.
C6_OneFilePerSuccess ==
    cpc = "returned" =>
        /\ \A t \in Tasks :
               future[t].file # None =>
                   LET f == PathJoin(output_dir, Stem(image_paths[t]) \o MaskSuffix)
                   IN  f \in DOMAIN files /\ files[f] = mask[t]
        /\ Cardinality(DOMAIN files) = Cardinality({t \in Tasks : future[t].file # None})

\* C7: a returned file name names a file that held the call's mask when the
\* call returned; a call without file name returned the count 0; every
\* count is a natural number.
C7_LocationOnlyWhenWritten ==
    \A t \in Tasks :
        tpc[t] = "done" =>
            /\ future[t].count \in Nat
            /\ future[t].file = None => future[t].count = 0
            /\ future[t].file # None =>
                   /\ future[t].file \in DOMAIN after[t]
                   /\ after[t][future[t].file] = mask[t]

\* C8: the batch returns; by then every call has run once and every future
\* has been collected once, and none ever more than once.
C8_Terminates ==
    /\ <>(cpc = "returned")
    /\ [](cpc = "returned" => \A t \in Tasks : execCount[t] = 1 /\ collectCount[t] = 1)
    /\ [](\A t \in Tasks : execCount[t] <= 1 /\ collectCount[t] <= 1)

\* A batch of two images returned, one of them having failed.
C8_Witness ==
    /\ cpc = "returned"
    /\ N = 2
    /\ \E t \in Tasks : failed[t] # "no"
    /\ \A t \in Tasks : execCount[t] = 1 /\ collectCount[t] = 1

\* C9: the second of two calls in sequence on an unchanged image returns what
\* the first returned and leaves the files as the first left them.
C9_SecondRunSame ==
    (N = 2 /\ tpc[2] = "done") =>
        /\ future[2] = future[1]
        /\ after[2] = after[1]
        /\ failed[2] = failed[1]

\* Both calls returned the file name of a mask file that exists.
C9_Witness ==
    /\ N = 2 /\ tpc[2] = "done"
    /\ future[1].file # None
    /\ future[1].file \in DOMAIN after[1]
    /\ future[2].count > 0

\* C10: while the coordinator collects, every call that is done and not yet
\* collected can be collected next, whatever the earlier calls are doing.
C10_CompletionOrder ==
    \A t \in Tasks :
        (cpc = "L104" /\ t \in pendingFut /\ tpc[t] = "done") => ENABLED Collect(t)

\* The second call is done and uncollected while the first is still running.
C10_Witness ==
    /\ cpc = "L104"
    /\ N = 2
    /\ tpc[2] = "done" /\ 2 \in pendingFut
    /\ tpc[1] \in {"queued", "L42", "L59", "L60", "L63"}

====
